---- MODULE Spec2Model ----
(***************************************************************************)
(* The 'Treasures' FastAPI app (src/main.py): five HTTP handlers over the  *)
(* tables "treasures" and "shops" of a relational store.                   *)
(*                                                                         *)
(* Units.  cost_at_auction is a float; the model keeps it as an integer    *)
(* number of eighths (1 = 0.125), which binary floating point represents   *)
(* exactly, so sums are exact.  A value rounded to 2 decimals is kept as   *)
(* an integer number of hundredths.                                        *)
(* An optional query parameter is <<>> when omitted and <<v>> when given.  *)
(*                                                                         *)
(* Steps.  No handler opens a transaction, so a step is one handler up to  *)
(* and including one SQL statement.  post_treasure, delete_treasure and    *)
(* get_treasures run one statement and are one step; patch_treasure and    *)
(* get_shops run two and are two steps, between which the steps of other   *)
(* requests can run.                                                       *)
(***************************************************************************)
EXTENDS Integers, Sequences, FiniteSets, TLC

VARIABLES
    shops,      \* table shops: set of rows [shop_id, shop_name, slogan]
    treasures,  \* table treasures: treasure_id -> row
    seq,        \* last value of the treasure_id sequence of the store
    open,       \* number of storage connections currently open
    request,    \* the request whose statement ran last
    response,   \* its response: [status, fault, body], Pending if not yet
    dbcalls,    \* the storage calls that request has made so far, in order
    pc,         \* per slot: position of the request inside its handler
    local,      \* per slot: locals of the handler between two statements
    replaced    \* history: the cost rows the UPDATE that ran last replaced

vars == <<shops, treasures, seq, open, request, response, dbcalls, pc, local,
          replaced>>

----------------------------------------------------------------------------
(* Bounds *)

MaxPosts == 1      \* POST requests (rows inserted or rejected) after the seed
MaxConns == 2      \* connections the store accepts at the same time

(* The requests that can be between two statements at the same time: a
   starting request takes the first free slot. *)
Clients == {"c1", "c2"}

----------------------------------------------------------------------------
(* Seed data: db.seed.seed_db, called by the test fixture reset_db: 11
   shops and 26 treasures, every shop with at least one treasure (shop 11
   with treasure 1 alone), treasure 1 at 20.0 (160 eighths). *)

SeedShops ==
    { [shop_id |-> 1, shop_name |-> "shop-k", slogan |-> "slogan-k"],
      [shop_id |-> 2, shop_name |-> "shop-j", slogan |-> "slogan-j"],
      [shop_id |-> 3, shop_name |-> "shop-i", slogan |-> "slogan-i"],
      [shop_id |-> 4, shop_name |-> "shop-h", slogan |-> "slogan-h"],
      [shop_id |-> 5, shop_name |-> "shop-g", slogan |-> "slogan-g"],
      [shop_id |-> 6, shop_name |-> "shop-f", slogan |-> "slogan-f"],
      [shop_id |-> 7, shop_name |-> "shop-e", slogan |-> "slogan-e"],
      [shop_id |-> 8, shop_name |-> "shop-d", slogan |-> "slogan-d"],
      [shop_id |-> 9, shop_name |-> "shop-c", slogan |-> "slogan-c"],
      [shop_id |-> 10, shop_name |-> "shop-b", slogan |-> "slogan-b"],
      [shop_id |-> 11, shop_name |-> "shop-a", slogan |-> "slogan-a"] }

SeedRows ==
    << [treasure_id |-> 1, treasure_name |-> "treasure-f", colour |-> "gold",
       age |-> 1, cost_at_auction |-> 160, shop_id |-> 11],
       [treasure_id |-> 2, treasure_name |-> "treasure-k", colour |-> "silver",
       age |-> 3, cost_at_auction |-> 14, shop_id |-> 2],
       [treasure_id |-> 3, treasure_name |-> "treasure-p", colour |-> "azure",
       age |-> 4, cost_at_auction |-> 17, shop_id |-> 3],
       [treasure_id |-> 4, treasure_name |-> "treasure-u", colour |-> "ivory",
       age |-> 5, cost_at_auction |-> 20, shop_id |-> 4],
       [treasure_id |-> 5, treasure_name |-> "treasure-z", colour |-> "onyx",
       age |-> 6, cost_at_auction |-> 23, shop_id |-> 5],
       [treasure_id |-> 6, treasure_name |-> "treasure-e", colour |-> "gold",
       age |-> 7, cost_at_auction |-> 9, shop_id |-> 6],
       [treasure_id |-> 7, treasure_name |-> "treasure-j", colour |-> "silver",
       age |-> 8, cost_at_auction |-> 12, shop_id |-> 7],
       [treasure_id |-> 8, treasure_name |-> "treasure-o", colour |-> "azure",
       age |-> 9, cost_at_auction |-> 15, shop_id |-> 8],
       [treasure_id |-> 9, treasure_name |-> "treasure-t", colour |-> "ivory",
       age |-> 10, cost_at_auction |-> 18, shop_id |-> 9],
       [treasure_id |-> 10, treasure_name |-> "treasure-y", colour |-> "onyx",
       age |-> 11, cost_at_auction |-> 21, shop_id |-> 10],
       [treasure_id |-> 11, treasure_name |-> "treasure-d", colour |-> "gold",
       age |-> 0, cost_at_auction |-> 3, shop_id |-> 1],
       [treasure_id |-> 12, treasure_name |-> "treasure-i", colour |-> "silver",
       age |-> 2, cost_at_auction |-> 7, shop_id |-> 1],
       [treasure_id |-> 13, treasure_name |-> "treasure-n", colour |-> "azure",
       age |-> 12, cost_at_auction |-> 13, shop_id |-> 2],
       [treasure_id |-> 14, treasure_name |-> "treasure-s", colour |-> "ivory",
       age |-> 13, cost_at_auction |-> 16, shop_id |-> 3],
       [treasure_id |-> 15, treasure_name |-> "treasure-x", colour |-> "onyx",
       age |-> 14, cost_at_auction |-> 19, shop_id |-> 4],
       [treasure_id |-> 16, treasure_name |-> "treasure-c", colour |-> "gold",
       age |-> 15, cost_at_auction |-> 22, shop_id |-> 5],
       [treasure_id |-> 17, treasure_name |-> "treasure-h", colour |-> "silver",
       age |-> 16, cost_at_auction |-> 8, shop_id |-> 6],
       [treasure_id |-> 18, treasure_name |-> "treasure-m", colour |-> "azure",
       age |-> 17, cost_at_auction |-> 11, shop_id |-> 7],
       [treasure_id |-> 19, treasure_name |-> "treasure-r", colour |-> "ivory",
       age |-> 18, cost_at_auction |-> 14, shop_id |-> 8],
       [treasure_id |-> 20, treasure_name |-> "treasure-w", colour |-> "onyx",
       age |-> 19, cost_at_auction |-> 17, shop_id |-> 9],
       [treasure_id |-> 21, treasure_name |-> "treasure-b", colour |-> "gold",
       age |-> 20, cost_at_auction |-> 20, shop_id |-> 10],
       [treasure_id |-> 22, treasure_name |-> "treasure-g", colour |-> "silver",
       age |-> 21, cost_at_auction |-> 23, shop_id |-> 1],
       [treasure_id |-> 23, treasure_name |-> "treasure-l", colour |-> "azure",
       age |-> 22, cost_at_auction |-> 9, shop_id |-> 2],
       [treasure_id |-> 24, treasure_name |-> "treasure-q", colour |-> "ivory",
       age |-> 23, cost_at_auction |-> 12, shop_id |-> 3],
       [treasure_id |-> 25, treasure_name |-> "treasure-v", colour |-> "onyx",
       age |-> 26, cost_at_auction |-> 15, shop_id |-> 4],
       [treasure_id |-> 26, treasure_name |-> "treasure-a", colour |-> "gold",
       age |-> 25, cost_at_auction |-> 18, shop_id |-> 5] >>

SeedTreasures == [i \in 1..Len(SeedRows) |-> SeedRows[i]]

(* Request bodies of POST /api/treasures (class NewTreasure): the two of
   the tests (666.0 is 5328 eighths) and one for the shop of one treasure. *)
NewTreasure ==
    { [treasure_name |-> "Steel Computer", colour |-> "steel", age |-> 24,
       cost_at_auction |-> 5328, shop_id |-> 1],
      [treasure_name |-> "Steel Computer", colour |-> "steel", age |-> 24,
       cost_at_auction |-> 5328, shop_id |-> 12],
      [treasure_name |-> "trinket", colour |-> "silver", age |-> 1,
       cost_at_auction |-> 1, shop_id |-> 11] }

(* Request bodies of PATCH (class NewPrice), in eighths: 0.125, the
   tests' 5.0 and 1000000.0. *)
NewPrice == {1, 40, 8000000}

(* Path ids of PATCH and DELETE: treasure 1 and the ids of posted rows. *)
TreasureIds == {1} \cup (Len(SeedRows) + 1)..(Len(SeedRows) + MaxPosts)

----------------------------------------------------------------------------
(* The store's comparison of text values (ORDER BY on a text column), as   *)
(* a rank over the strings the model uses.                                 *)
StrRank(s) ==
    CASE s = "" -> 0
      [] s = "azure" -> 1
      [] s = "gold" -> 2
      [] s = "ivory" -> 3
      [] s = "onyx" -> 4
      [] s = "shop-a" -> 5
      [] s = "shop-b" -> 6
      [] s = "shop-c" -> 7
      [] s = "shop-d" -> 8
      [] s = "shop-e" -> 9
      [] s = "shop-f" -> 10
      [] s = "shop-g" -> 11
      [] s = "shop-h" -> 12
      [] s = "shop-i" -> 13
      [] s = "shop-j" -> 14
      [] s = "shop-k" -> 15
      [] s = "silver" -> 16
      [] s = "steel" -> 17
      [] s = "Steel Computer" -> 18
      [] s = "treasure-a" -> 19
      [] s = "treasure-b" -> 20
      [] s = "treasure-c" -> 21
      [] s = "treasure-d" -> 22
      [] s = "treasure-e" -> 23
      [] s = "treasure-f" -> 24
      [] s = "treasure-g" -> 25
      [] s = "treasure-h" -> 26
      [] s = "treasure-i" -> 27
      [] s = "treasure-j" -> 28
      [] s = "treasure-k" -> 29
      [] s = "treasure-l" -> 30
      [] s = "treasure-m" -> 31
      [] s = "treasure-n" -> 32
      [] s = "treasure-o" -> 33
      [] s = "treasure-p" -> 34
      [] s = "treasure-q" -> 35
      [] s = "treasure-r" -> 36
      [] s = "treasure-s" -> 37
      [] s = "treasure-t" -> 38
      [] s = "treasure-u" -> 39
      [] s = "treasure-v" -> 40
      [] s = "treasure-w" -> 41
      [] s = "treasure-x" -> 42
      [] s = "treasure-y" -> 43
      [] s = "treasure-z" -> 44
      [] s = "trinket" -> 45
      [] OTHER -> 46

treasures_columns ==
    {"treasure_id", "treasure_name", "colour", "age", "cost_at_auction", "shop_name"}

order_options == {"asc", "desc"}

----------------------------------------------------------------------------
(* Storage responses and faults *)

Ok(status, body) == [status |-> status, fault |-> "none", body |-> body]

HTTPException(status, detail) ==
    [status |-> status, fault |-> "HTTPException", body |-> detail]

(* An exception no handler catches: the server answers 500. *)
Unhandled(fault) == [status |-> 500, fault |-> fault, body |-> <<>>]

NoBody == <<>>

----------------------------------------------------------------------------
(* Statements *)

(* Foreign key treasures.shop_id -> shops.shop_id, enforced by the store. *)
ShopExists(shop_id) == \E s \in shops : s.shop_id = shop_id

(* INSERT INTO treasures (...) VALUES (:treasure_name, ...) with the handler's
   parameter bindings: the row the store persists under the generated id. *)
InsertedRow(id, new_treasure) ==
    [treasure_id |-> id,
     treasure_name |-> new_treasure.treasure_name,
     colour |-> new_treasure.colour,
     age |-> new_treasure.age,
     cost_at_auction |-> new_treasure.cost_at_auction,
     shop_id |-> new_treasure.shop_id]

(* RETURNING * : a stored row as a tuple in the table's column order. *)
Returning(row) ==
    <<row.treasure_id, row.treasure_name, row.colour, row.age,
      row.cost_at_auction, row.shop_id>>

(* SELECT cost_at_auction FROM treasures WHERE treasure_id = :id *)
SelectCost(table, id) ==
    IF id \in DOMAIN table THEN << <<table[id].cost_at_auction>> >> ELSE <<>>

(* Mutant: the comparison written > , so an equal price is accepted. *)
PriceRejectedOnlyHigher(new_price, current_price) == new_price > current_price

(* new_price.cost_at_auction >= get_current_price[0][0] *)
PriceRejected(new_price, current_price) == new_price >= current_price

(* Mutant: the UPDATE without its WHERE clause. *)
UpdateCostEveryRow(table, id, price) ==
    [i \in DOMAIN table |-> [table[i] EXCEPT !.cost_at_auction = price]]

(* UPDATE treasures SET cost_at_auction = :price WHERE treasure_id = :id *)
UpdateCost(table, id, price) ==
    IF id \in DOMAIN table
    THEN [table EXCEPT ![id].cost_at_auction = price]
    ELSE table

(* DELETE from treasures WHERE treasure_id = :id RETURNING * : the rows deleted *)
DeletedRows(table, id) ==
    IF id \in DOMAIN table THEN <<Returning(table[id])>> ELSE <<>>

(* Mutant: WHERE treasure_id <= :id . *)
DeleteFromUpTo(table, id) ==
    [i \in { j \in DOMAIN table : j > id } |-> table[i]]

(* ... and the table that remains. *)
DeleteFrom(table, id) ==
    [i \in DOMAIN table \ {id} |-> table[i]]

----------------------------------------------------------------------------
(* Handlers.  Each gives the outcome of one request on a table:            *)
(* [response, calls, table, seq], calls being the storage calls in order.  *)

Outcome(resp, calls, table, seqv) ==
    [response |-> resp, calls |-> calls, table |-> table, seq |-> seqv]

(* Mutant: age and cost_at_auction read from each other's index. *)
PostBodySwapped(new_query) ==
    [treasure_id |-> new_query[1][1],
     treasure_name |-> new_query[1][2],
     colour |-> new_query[1][3],
     age |-> new_query[1][5],
     cost_at_auction |-> new_query[1][4],
     shop_id |-> new_query[1][6]]

(* The response body of POST: new_query[0][0] .. new_query[0][5]. *)
PostBody(new_query) ==
    [treasure_id |-> new_query[1][1],
     treasure_name |-> new_query[1][2],
     colour |-> new_query[1][3],
     age |-> new_query[1][4],
     cost_at_auction |-> new_query[1][5],
     shop_id |-> new_query[1][6]]

(* Mutant: the connection closed after the insert instead of in finally. *)
post_treasure_no_finally(table, seqv, new_treasure) ==
    LET id == seqv + 1
        row == InsertedRow(id, new_treasure)
    IN  IF ShopExists(new_treasure.shop_id)
        THEN Outcome(Ok(201, PostBody(<<Returning(row)>>)),
                     <<"connect", "run", "close">>,
                     (id :> row) @@ table, id)
        ELSE Outcome(HTTPException(422, <<"shop id ", new_treasure.shop_id,
                                          " is out of range">>),
                     <<"connect", "run">>,
                     table, id)

(* The sequence value is taken before the foreign key is checked, so a
   rejected insert consumes an id as well. *)
post_treasure(table, seqv, new_treasure) ==
    LET id == seqv + 1
        row == InsertedRow(id, new_treasure)
    IN  IF ShopExists(new_treasure.shop_id)
        THEN Outcome(Ok(201, PostBody(<<Returning(row)>>)),
                     <<"connect", "run", "close">>,
                     (id :> row) @@ table, id)
        ELSE Outcome(HTTPException(422, <<"shop id ", new_treasure.shop_id,
                                          " is out of range">>),
                     <<"connect", "run", "close">>,
                     table, id)

delete_treasure(table, seqv, treasure_id) ==
    LET deleted == DeletedRows(table, treasure_id)
        after == DeleteFrom(table, treasure_id)
    IN  IF deleted = <<>>
        THEN Outcome(Unhandled("ValueError"), <<"connect", "run">>, after, seqv)
        ELSE Outcome(Ok(204, NoBody), <<"connect", "run", "close">>, after, seqv)

----------------------------------------------------------------------------
(* GET /api/shops *)

RECURSIVE SumCost(_, _)
(* SUM(cost_at_auction) over the rows of table with ids in ids *)
SumCost(table, ids) ==
    IF ids = {} THEN 0
    ELSE LET i == CHOOSE x \in ids : TRUE
         IN  table[i].cost_at_auction + SumCost(table, ids \ {i})

(* SELECT shop_id, SUM(cost_at_auction) FROM treasures GROUP BY shop_id :
   one row per shop_id that occurs in treasures. *)
SelectCostByShop(table) ==
    { <<sid, SumCost(table, {i \in DOMAIN table : table[i].shop_id = sid})>> :
        sid \in {table[i].shop_id : i \in DOMAIN table} }

(* Mutant: round(x) without the number of decimals. *)
RoundWhole(x) ==
    LET q == x \div 8
        r == x % 8
    IN  100 * (IF r < 4 THEN q ELSE IF r > 4 THEN q + 1
               ELSE IF q % 2 = 0 THEN q ELSE q + 1)

(* round(x, 2) of x eighths, in hundredths: x/8 = 12.5 x hundredths, and
   Python rounds an exact half to the even neighbour. *)
Round2(x) ==
    LET n == 25 * x
        q == n \div 2
    IN  IF n % 2 = 0 THEN q
        ELSE IF q % 2 = 0 THEN q ELSE q + 1

RECURSIVE ByShopId(_)
(* Rows of shops in the order of their shop_id. *)
ByShopId(rows) ==
    IF rows = {} THEN <<>>
    ELSE LET first == CHOOSE r \in rows : \A o \in rows : r[1] <= o[1]
         IN  <<first>> \o ByShopId(rows \ {first})

(* SELECT shop_id, shop_name, slogan FROM shops : no request writes shops,
   so the scan returns the rows as the seed inserted them. *)
SelectShops == ByShopId({ <<s.shop_id, s.shop_name, s.slogan>> : s \in shops })

(* The inner loop: the last matching stock row sets 'stock value'. *)
WithStock(new_shop, treasures_cost) ==
    LET matching == { stock \in treasures_cost : stock[1] = new_shop.shop_id }
    IN  IF matching = {} THEN new_shop
        ELSE LET stock == CHOOSE m \in matching : TRUE
             IN  ("stock value" :> Round2(stock[2])) @@ new_shop

(* Mutant: the entry built without its slogan. *)
ShopEntryNoSlogan(shop, treasures_cost) ==
    WithStock([shop_id |-> shop[1], shop_name |-> shop[2]], treasures_cost)

ShopEntry(shop, treasures_cost) ==
    WithStock([shop_id |-> shop[1], shop_name |-> shop[2], slogan |-> shop[3]],
              treasures_cost)

(* The loop over shops: one entry per row, in the rows' order. *)
ShopsBody(rows, treasures_cost) ==
    [i \in 1..Len(rows) |-> ShopEntry(rows[i], treasures_cost)]

----------------------------------------------------------------------------
(* GET /api/treasures *)

(* SELECT treasures.treasure_id, ..., shops.shop_name FROM treasures
   JOIN shops ON treasures.shop_id = shops.shop_id *)
JoinShops(table) ==
    { <<table[i].treasure_id, table[i].treasure_name, table[i].colour,
        table[i].age, table[i].cost_at_auction, s.shop_name>> :
        <<i, s>> \in { x \in (DOMAIN table) \X shops :
                          table[x[1]].shop_id = x[2].shop_id } }

(* Position of a column in the select list, and whether the column is text. *)
ColumnIndex(column) ==
    CASE column = "treasure_id"     -> 1
      [] column = "treasure_name"   -> 2
      [] column = "colour"          -> 3
      [] column = "age"             -> 4
      [] column = "cost_at_auction" -> 5
      [] column = "shop_name"       -> 6

TextColumns == {"treasure_name", "colour", "shop_name"}

(* The value the store orders a row by, as an integer. *)
SortKey(row, column) ==
    IF column \in TextColumns
    THEN StrRank(row[ColumnIndex(column)])
    ELSE row[ColumnIndex(column)]

(* Mutant: the direction left out of the clause, so the store's default
   (ascending) applies. *)
OrderByClauseNoDirection(sort_by, order) == <<sort_by, "asc">>

(* The ORDER BY clause the handler interpolates: ORDER BY {sort_by} {order} *)
OrderByClause(sort_by, order) == <<sort_by, order>>

(* The key that comes first under an ORDER BY clause: the least for asc,
   the greatest for desc. *)
FirstKey(keys, clause) ==
    CHOOSE k \in keys :
        \A j \in keys : IF clause[2] = "asc" THEN k <= j ELSE k >= j

RECURSIVE OrderBy(_, _)
(* The orders in which the store may return rows under an ORDER BY clause:
   rows with equal keys come in any order. *)
OrderBy(rows, clause) ==
    IF rows = {} THEN {<<>>}
    ELSE LET first == FirstKey({ SortKey(r, clause[1]) : r \in rows }, clause)
         IN  UNION { { <<r>> \o rest : rest \in OrderBy(rows \ {r}, clause) } :
                     r \in { a \in rows : SortKey(a, clause[1]) = first } }

(* The list comprehension that names the columns of each row. *)
TreasureEntry(treasure) ==
    [treasure_id |-> treasure[1],
     treasure_name |-> treasure[2],
     colour |-> treasure[3],
     age |-> treasure[4],
     cost_at_auction |-> treasure[5],
     shop_name |-> treasure[6]]

(* Python truth of an optional parameter: None, 0 and "" are false. *)
TruthyInt(param) == param # <<>> /\ param[1] # 0

TruthyStr(param) == param # <<>> /\ param[1] # ""

FilterMinAge(data, min_age) ==
    IF TruthyInt(min_age)
    THEN SelectSeq(data, LAMBDA t : t.age >= min_age[1])
    ELSE data

FilterMaxAge(data, max_age) ==
    IF TruthyInt(max_age)
    THEN SelectSeq(data, LAMBDA t : t.age <= max_age[1])
    ELSE data

FilterColour(data, colour) ==
    IF TruthyStr(colour)
    THEN SelectSeq(data, LAMBDA t : t.colour = colour[1])
    ELSE data

InvalidSort(sort_by) == sort_by \notin treasures_columns

(* Mutant: order is not validated. *)
InvalidOrderUnchecked(order) == FALSE

InvalidOrder(order) == order \notin order_options

(* A query parameter's value: the declared default when it is omitted. *)
Default(param, default) == IF param = <<>> THEN default ELSE param[1]

get_treasures(table, seqv, q) ==
    LET sort_by == Default(q.sort_by, "age")
        order == Default(q.order, "asc")
    IN  IF InvalidSort(sort_by)
        THEN { Outcome(HTTPException(422, <<"Invalid sort field: ", sort_by>>),
                       <<>>, table, seqv) }
        ELSE IF InvalidOrder(order)
        THEN { Outcome(HTTPException(422, <<"Invalid order field: ", order>>),
                       <<>>, table, seqv) }
        ELSE { Outcome(Ok(200,
                          FilterColour(
                            FilterMaxAge(
                              FilterMinAge(
                                [i \in 1..Len(rows) |-> TreasureEntry(rows[i])],
                                q.min_age),
                              q.max_age),
                            q.colour)),
                       <<"connect", "run", "close">>, table, seqv) :
                 rows \in OrderBy(JoinShops(table), OrderByClause(sort_by, order)) }

----------------------------------------------------------------------------
(* Requests *)

Optional(S) == {<<>>} \cup { <<v>> : v \in S }

Query(sort_by, order, colour, max_age, min_age) ==
    [sort_by |-> sort_by, order |-> order, colour |-> colour,
     max_age |-> max_age, min_age |-> min_age]

(* Query strings of GET /api/treasures: every parameter omitted or given,
   with every column and direction and one invalid value of each. *)
Ages == 0..2

AllQueries ==
    { Query(s, o, c, mx, mn) :
        s \in Optional(treasures_columns \cup {"cost"}),
        o \in Optional(order_options \cup {"dsc"}),
        c \in Optional({"", "gold", "silver"}),
        mx \in Optional(Ages),
        mn \in Optional(Ages) }

(* No parameter given, and one invalid value of each validated parameter. *)
DefaultQueries ==
    { Query(<<>>, <<>>, <<>>, <<>>, <<>>),
      Query(<<"cost">>, <<>>, <<>>, <<>>, <<>>),
      Query(<<>>, <<"dsc">>, <<>>, <<>>, <<>>) }

Count(calls, call) == Cardinality({ i \in 1..Len(calls) : calls[i] = call })

SeedCount == Len(SeedRows)

(* The response of a request that has statements left to run. *)
Pending == [status |-> 0, fault |-> "pending", body |-> <<>>]

Free(c) == pc[c] = "idle" /\ (c = "c2" => pc["c1"] # "idle")

(* Locals of a handler between two statements; NoLocals outside of one. *)
PatchLocals(treasure_id, new_price, current_price) ==
    [treasure_id |-> treasure_id, new_price |-> new_price,
     current_price |-> current_price]

NoLocals == PatchLocals(0, 0, 0)

(* A handler with a single statement, from connect_to_db to its response:
   the statement is its only access to what is stored. *)
Apply(req, outcome) ==
    /\ Count(outcome.calls, "connect") > 0 => open < MaxConns
    /\ request' = req
    /\ response' = outcome.response
    /\ dbcalls' = outcome.calls
    /\ treasures' = outcome.table
    /\ seq' = outcome.seq
    /\ open' = open + Count(outcome.calls, "connect") - Count(outcome.calls, "close")
    /\ replaced' = <<>>
    /\ UNCHANGED <<shops, pc, local>>

Post ==
    /\ seq < SeedCount + MaxPosts
    /\ \E new_treasure \in NewTreasure :
          Apply([op |-> "POST", new_treasure |-> new_treasure],
                post_treasure(treasures, seq, new_treasure))

Delete ==
    \E treasure_id \in TreasureIds :
        Apply([op |-> "DELETE", treasure_id |-> treasure_id],
              delete_treasure(treasures, seq, treasure_id))

GetTreasures(queries) ==
    \E q \in queries :
        \E outcome \in get_treasures(treasures, seq, q) :
            Apply([op |-> "GET treasures", query |-> q], outcome)

(* patch_treasure up to its second statement: connect_to_db, the SELECT and
   the comparison.  A fault ends the request and leaves the connection
   open; otherwise the UPDATE is still to run. *)
PatchSelect(c) ==
    /\ Free(c)
    /\ open < MaxConns
    /\ \E treasure_id \in TreasureIds, new_price \in NewPrice :
          LET get_current_price == SelectCost(treasures, treasure_id)
          IN  /\ request' = [op |-> "PATCH", treasure_id |-> treasure_id,
                             new_price |-> new_price]
              /\ IF get_current_price = <<>>
                 THEN /\ response' = Unhandled("IndexError")
                      /\ UNCHANGED <<pc, local>>
                 ELSE IF PriceRejected(new_price, get_current_price[1][1])
                 THEN /\ response' = Unhandled("ValueError")
                      /\ UNCHANGED <<pc, local>>
                 ELSE /\ response' = Pending
                      /\ pc' = [pc EXCEPT ![c] = "update"]
                      /\ local' = [local EXCEPT ![c] =
                                     PatchLocals(treasure_id, new_price,
                                                 get_current_price[1][1])]
    /\ dbcalls' = <<"connect", "run">>
    /\ open' = open + 1
    /\ replaced' = <<>>
    /\ UNCHANGED <<shops, treasures, seq>>

(* The rest of patch_treasure: the UPDATE, conn.close() and the 204. *)
PatchUpdate(c) ==
    /\ pc[c] = "update"
    /\ treasures' = UpdateCost(treasures, local[c].treasure_id, local[c].new_price)
    /\ request' = [op |-> "PATCH", treasure_id |-> local[c].treasure_id,
                   new_price |-> local[c].new_price]
    /\ response' = Ok(204, NoBody)
    /\ dbcalls' = <<"connect", "run", "run", "close">>
    /\ pc' = [pc EXCEPT ![c] = "idle"]
    /\ local' = [local EXCEPT ![c] = NoLocals]
    /\ open' = open - 1
    /\ replaced' = SelectCost(treasures, local[c].treasure_id)
    /\ UNCHANGED <<shops, seq>>

(* get_shops up to its second statement: connect_to_db and the SELECT on
   shops. *)
ShopsSelect(c) ==
    /\ Free(c)
    /\ open < MaxConns
    /\ request' = [op |-> "GET shops"]
    /\ response' = Pending
    /\ dbcalls' = <<"connect", "run">>
    /\ pc' = [pc EXCEPT ![c] = "stock"]
    /\ local' = [local EXCEPT ![c] = [shops |-> SelectShops]]
    /\ open' = open + 1
    /\ replaced' = <<>>
    /\ UNCHANGED <<shops, treasures, seq>>

(* The rest of get_shops: the SELECT of the sums, the loop, conn.close() and
   the response. *)
ShopsStock(c) ==
    /\ pc[c] = "stock"
    /\ request' = [op |-> "GET shops"]
    /\ response' = Ok(200, ShopsBody(local[c].shops, SelectCostByShop(treasures)))
    /\ dbcalls' = <<"connect", "run", "run", "close">>
    /\ pc' = [pc EXCEPT ![c] = "idle"]
    /\ local' = [local EXCEPT ![c] = NoLocals]
    /\ open' = open - 1
    /\ replaced' = <<>>
    /\ UNCHANGED <<shops, treasures, seq>>

----------------------------------------------------------------------------
(* Specifications *)

Init ==
    /\ shops = SeedShops
    /\ treasures = SeedTreasures
    /\ seq = SeedCount
    /\ open = 0
    /\ request = [op |-> "none"]
    /\ response = Ok(0, NoBody)
    /\ dbcalls = <<>>
    /\ pc = [c \in Clients |-> "idle"]
    /\ local = [c \in Clients |-> NoLocals]
    /\ replaced = <<>>

(* A request starts. *)
Start ==
    \/ Post
    \/ Delete
    \/ GetTreasures(DefaultQueries)
    \/ \E c \in Clients : PatchSelect(c)
    \/ \E c \in Clients : ShopsSelect(c)

(* A request that has started runs its next statement. *)
Continue ==
    \/ \E c \in Clients : PatchUpdate(c)
    \/ \E c \in Clients : ShopsStock(c)

(* Requests of several clients, interleaved statement by statement. *)
Next == Start \/ Continue

Spec == Init /\ [][Next]_vars

(* Requests one at a time: none starts while another has statements left. *)
NextSeq ==
    \/ (\A c \in Clients : pc[c] = "idle") /\ Start
    \/ Continue

SpecSeq == Init /\ [][NextSeq]_vars

(* PATCH requests alone, interleaved statement by statement. *)
NextConc ==
    \E c \in Clients : PatchSelect(c) \/ PatchUpdate(c)

SpecConc == Init /\ [][NextConc]_vars

(* The list is a function of the stored rows and the query: it is checked
   on the tables left when all treasures but some of 1, 11 and 12 have been
   deleted, and on those with posted rows added.  A list request changes
   nothing that is stored, so a second one in a row reaches nothing the
   first did not. *)
ListedIds == {1, 11, 12}

InitList ==
    /\ shops = SeedShops
    /\ treasures \in { [i \in ids |-> SeedTreasures[i]] : ids \in SUBSET ListedIds }
    /\ seq = SeedCount
    /\ open = 0
    /\ request = [op |-> "none"]
    /\ response = Ok(0, NoBody)
    /\ dbcalls = <<>>
    /\ pc = [c \in Clients |-> "idle"]
    /\ local = [c \in Clients |-> NoLocals]
    /\ replaced = <<>>

NextList ==
    \/ Post
    \/ request.op # "GET treasures" /\ GetTreasures(AllQueries)

SpecList == InitList /\ [][NextList]_vars

----------------------------------------------------------------------------
(* Properties of requests handled one at a time (SpecSeq) *)

(* C1: with requests one at a time, a PATCH on a stored treasure faults
   with ValueError and leaves the stored price (and the table) as it was
   when the new price is >= the stored one; otherwise its UPDATE follows
   its SELECT, it returns 204, the stored price of that treasure is the new
   price and every other treasure is unchanged. *)
PatchLowersPriceOrFaults ==
    [][ /\ (/\ request'.op = "PATCH"
            /\ response'.status # 204
            /\ request'.treasure_id \in DOMAIN treasures) =>
              /\ treasures' = treasures
              /\ IF request'.new_price >= treasures[request'.treasure_id].cost_at_auction
                 THEN /\ response'.status = 500
                      /\ response'.fault = "ValueError"
                 ELSE /\ response' = Pending
                      /\ \E c \in Clients : pc'[c] = "update"
        /\ (request.op = "PATCH" /\ response = Pending) =>
              /\ request' = request
              /\ response'.status = 204
        /\ (request'.op = "PATCH" /\ response'.status = 204) =>
              LET id == request'.treasure_id
                  new == request'.new_price
              IN  /\ request.op = "PATCH" /\ response = Pending
                  /\ id \in DOMAIN treasures
                  /\ new < treasures[id].cost_at_auction
                  /\ DOMAIN treasures' = DOMAIN treasures
                  /\ treasures'[id].cost_at_auction = new
                  /\ \A i \in DOMAIN treasures \ {id} : treasures'[i] = treasures[i]
      ]_vars

(* A PATCH returned 204: it replaced a higher price of a treasure by the
   requested one, next to other treasures. *)
PatchLoweredPrice ==
    /\ request.op = "PATCH"
    /\ response.status = 204
    /\ request.treasure_id \in DOMAIN treasures
    /\ treasures[request.treasure_id].cost_at_auction = request.new_price
    /\ replaced # <<>>
    /\ replaced[1][1] > request.new_price
    /\ Cardinality(DOMAIN treasures) > 1

----------------------------------------------------------------------------
(* Properties of interleaved requests (Spec) *)

(* C2: a POST whose shop_id is a stored shop returns 201 with the persisted
   record: its treasure_id was the id of no stored treasure, its other
   fields are the submitted ones, and the table grows by that one row; a
   POST whose shop_id is no stored shop returns 422 with the detail
   "shop id <shop_id> is out of range" and leaves the table unchanged. *)
PostAddsRowIffShopExists ==
    [][ request'.op = "POST" =>
          LET new == request'.new_treasure
              body == response'.body
          IN  IF \E s \in shops : s.shop_id = new.shop_id
              THEN /\ response'.status = 201
                   /\ body.treasure_id \notin DOMAIN treasures
                   /\ body.treasure_name = new.treasure_name
                   /\ body.colour = new.colour
                   /\ body.age = new.age
                   /\ body.cost_at_auction = new.cost_at_auction
                   /\ body.shop_id = new.shop_id
                   /\ DOMAIN treasures' = DOMAIN treasures \cup {body.treasure_id}
                   /\ Cardinality(DOMAIN treasures') = Cardinality(DOMAIN treasures) + 1
                   /\ treasures'[body.treasure_id] = body
                   /\ \A i \in DOMAIN treasures : treasures'[i] = treasures[i]
              ELSE /\ response'.status = 422
                   /\ response'.body = <<"shop id ", new.shop_id, " is out of range">>
                   /\ treasures' = treasures
      ]_vars

(* A POST returned 201 while a PATCH is between its two statements and
   after treasure 1 was deleted: the new row is stored under the next id. *)
PostCreatedTreasure ==
    /\ request.op = "POST"
    /\ response.status = 201
    /\ response.body.treasure_id = SeedCount + 1
    /\ treasures[SeedCount + 1] = response.body
    /\ 1 \notin DOMAIN treasures
    /\ \E c \in Clients : pc[c] = "update"

(* C3: a DELETE of a stored id returns 204 and removes that row alone: the
   list returned afterwards is one entry shorter and holds no entry of that
   id; a DELETE of an id that is not stored faults with ValueError and
   leaves the table unchanged. *)
DeleteRemovesExactlyOne ==
    [][ request'.op = "DELETE" =>
          LET id == request'.treasure_id
              all == Query(<<>>, <<>>, <<>>, <<>>, <<>>)
          IN  IF id \in DOMAIN treasures
              THEN /\ response'.status = 204
                   /\ DOMAIN treasures' = DOMAIN treasures \ {id}
                   /\ \A i \in DOMAIN treasures' : treasures'[i] = treasures[i]
                   /\ \A before \in get_treasures(treasures, seq, all),
                         after \in get_treasures(treasures', seq', all) :
                          /\ Len(after.response.body) = Len(before.response.body) - 1
                          /\ \A k \in 1..Len(after.response.body) :
                                after.response.body[k].treasure_id # id
              ELSE /\ response'.status = 500
                   /\ response'.fault = "ValueError"
                   /\ treasures' = treasures
      ]_vars

(* A DELETE returned 204 while a PATCH of the same treasure is between its
   two statements: the id is gone, a seeded and a posted treasure are still
   stored. *)
DeleteRemovedTreasure ==
    /\ request.op = "DELETE"
    /\ response.status = 204
    /\ request.treasure_id \notin DOMAIN treasures
    /\ \E i, j \in DOMAIN treasures : i <= SeedCount /\ SeedCount < j
    /\ \E c \in Clients :
          pc[c] = "update" /\ local[c].treasure_id = request.treasure_id

(* C7: GET /api/shops returns one entry per stored shop; for a shop with
   at least one stored treasure 'stock value' is the sum of cost_at_auction
   of its treasures rounded to 2 decimals (a hundredth nearest to the sum),
   and for a shop without treasures the key is absent. *)
StockValueIsSumOrAbsent ==
    (request.op = "GET shops" /\ response.status = 200)
    => LET body == response.body
       IN  /\ Len(body) = Cardinality(shops)
           /\ \A s \in shops :
                 Cardinality({ k \in 1..Len(body) : body[k].shop_id = s.shop_id }) = 1
           /\ \A k \in 1..Len(body) :
                 LET mine == { i \in DOMAIN treasures :
                                 treasures[i].shop_id = body[k].shop_id }
                     diff == 8 * body[k]["stock value"] - 100 * SumCost(treasures, mine)
                 IN  IF mine # {}
                     THEN /\ "stock value" \in DOMAIN body[k]
                          /\ diff <= 4
                          /\ diff >= -4
                     ELSE "stock value" \notin DOMAIN body[k]

(* After a POST, a PATCH of the posted treasure and the DELETE of treasure
   1, GET /api/shops answered with a stock value for the shop of the posted
   treasure and none for the shop of treasure 1. *)
StockValueAfterChanges ==
    /\ request.op = "GET shops"
    /\ response.status = 200
    /\ 1 \notin DOMAIN treasures
    /\ SeedCount + 1 \in DOMAIN treasures
    /\ \E new_treasure \in NewTreasure :
          /\ treasures[SeedCount + 1].shop_id = new_treasure.shop_id
          /\ treasures[SeedCount + 1].cost_at_auction < new_treasure.cost_at_auction
    /\ \E k \in 1..Len(response.body) :
          /\ response.body[k].shop_id = treasures[SeedCount + 1].shop_id
          /\ "stock value" \in DOMAIN response.body[k]
    /\ \E k \in 1..Len(response.body) :
          /\ response.body[k].shop_id = SeedTreasures[1].shop_id
          /\ "stock value" \notin DOMAIN response.body[k]

(* C8 as stated: every entry of GET /api/shops carries shop_id, shop_name,
   slogan and a numeric 'stock value', and there is one entry per shop. *)
EveryShopHasStockValue ==
    (request.op = "GET shops" /\ response.status = 200)
    => /\ Len(response.body) = Cardinality(shops)
       /\ \A k \in 1..Len(response.body) :
             /\ {"shop_id", "shop_name", "slogan", "stock value"}
                   \subseteq DOMAIN response.body[k]
             /\ response.body[k]["stock value"] \in Int

(* C8 amended: every entry of GET /api/shops carries shop_id, shop_name and
   slogan, and a numeric 'stock value' exactly when the shop has at least
   one stored treasure; there is one entry per shop. *)
ShopHasStockValueIffStocked ==
    (request.op = "GET shops" /\ response.status = 200)
    => /\ Len(response.body) = Cardinality(shops)
       /\ \A k \in 1..Len(response.body) :
             LET entry == response.body[k]
             IN  /\ {"shop_id", "shop_name", "slogan"} \subseteq DOMAIN entry
                 /\ ("stock value" \in DOMAIN entry) <=>
                        (\E i \in DOMAIN treasures :
                            treasures[i].shop_id = entry.shop_id)
                 /\ "stock value" \in DOMAIN entry => entry["stock value"] \in Int

(* GET /api/shops answered after the only treasure of a seeded shop was
   deleted: that shop's entry has no 'stock value'. *)
ShopLostItsStock ==
    /\ request.op = "GET shops"
    /\ response.status = 200
    /\ \E s \in shops :
          /\ \E i \in DOMAIN SeedTreasures : SeedTreasures[i].shop_id = s.shop_id
          /\ \A i \in DOMAIN treasures : treasures[i].shop_id # s.shop_id

(* The requests between two statements, each holding one connection. *)
InFlight == Cardinality({ c \in Clients : pc[c] # "idle" })

(* C10: every request opens at most one connection; a POST (201 or 422)
   and every request answered 2xx that opened one closes it, a list request
   answered 422 opens none, and the number of connections open besides
   those of the requests still running grows, by one, exactly with a PATCH
   or DELETE that faults. *)
OnlyFaultsLeaveConnectionsOpen ==
    [][ /\ Count(dbcalls', "connect") <= 1
        /\ request'.op = "POST" =>
              Count(dbcalls', "connect") = 1 /\ Count(dbcalls', "close") = 1
        /\ (request'.op = "GET treasures" /\ response'.status = 422) =>
              Count(dbcalls', "connect") = 0
        /\ response'.status \in {200, 201, 204} =>
              /\ Count(dbcalls', "close") = Count(dbcalls', "connect")
              /\ dbcalls'[Len(dbcalls')] = "close"
        /\ open' - InFlight' =
              open - InFlight + (IF /\ request'.op \in {"PATCH", "DELETE"}
                                    /\ response'.status = 500
                                 THEN 1 ELSE 0)
      ]_vars

(* A rejected POST was handled while a connection left by a faulted PATCH or
   DELETE is still open, and no other connection is. *)
RejectedPostClosedConnection ==
    /\ request.op = "POST"
    /\ response.status = 422
    /\ dbcalls = <<"connect", "run", "close">>
    /\ open = 1
    /\ InFlight = 0

----------------------------------------------------------------------------
(* Properties of interleaved PATCH requests (SpecConc) *)

(* C9: the price is read and written in separate steps, and the write only
   depends on the price that was read: a request that passed the check
   writes its new price, which is lower than the price it read, whatever
   the stored price has become in between. *)
PatchWritesWhatItChecked ==
    [][ \A c \in Clients :
          (pc[c] = "update" /\ pc'[c] = "idle") =>
             /\ response'.status = 204
             /\ local[c].new_price < local[c].current_price
             /\ local[c].treasure_id \in DOMAIN treasures =>
                   treasures'[local[c].treasure_id].cost_at_auction = local[c].new_price
      ]_vars

(* A PATCH returned 204 and its UPDATE replaced a price lower than the one
   it wrote: it raised the stored price of the treasure. *)
PatchRaisedPrice ==
    /\ request.op = "PATCH"
    /\ response.status = 204
    /\ replaced # <<>>
    /\ replaced[1][1] < request.new_price
    /\ treasures[request.treasure_id].cost_at_auction = request.new_price

----------------------------------------------------------------------------
(* Properties of GET /api/treasures (SpecList) *)

(* C4: a list request whose sort_by is none of the six columns, or whose
   order is neither asc nor desc, is answered 422 without any storage call
   (no connect, no statement), whatever the filters and the stored rows. *)
InvalidQueryRejectedBeforeStorage ==
    (/\ request.op = "GET treasures"
     /\ \/ /\ request.query.sort_by # <<>>
            /\ request.query.sort_by[1] \notin
                  {"treasure_id", "treasure_name", "colour", "age",
                   "cost_at_auction", "shop_name"}
        \/ /\ request.query.order # <<>>
            /\ request.query.order[1] \notin {"asc", "desc"})
    => /\ response.status = 422
       /\ dbcalls = <<>>

(* A list request with a valid sort_by, the order "dsc" and every filter
   given was answered 422 while treasures are stored. *)
InvalidOrderRejected ==
    /\ request.op = "GET treasures"
    /\ request.query.sort_by = <<"cost_at_auction">>
    /\ request.query.order = <<"dsc">>
    /\ request.query.colour = <<"gold">>
    /\ request.query.max_age # <<>>
    /\ request.query.min_age # <<>>
    /\ response.status = 422
    /\ Cardinality(DOMAIN treasures) > 2

(* C5: when min_age, max_age or colour is given, the list holds exactly
   the stored treasures with age >= min_age, age <= max_age and colour
   equal to the given colour, for every given value, 0 and "" included. *)
FiltersApplyToEveryGivenValue ==
    (/\ request.op = "GET treasures"
     /\ response.status = 200
     /\ \/ request.query.min_age # <<>>
        \/ request.query.max_age # <<>>
        \/ request.query.colour # <<>>)
    => LET q == request.query
           matching ==
             { i \in DOMAIN treasures :
                 /\ q.min_age # <<>> => treasures[i].age >= q.min_age[1]
                 /\ q.max_age # <<>> => treasures[i].age <= q.max_age[1]
                 /\ q.colour # <<>> => treasures[i].colour = q.colour[1] }
       IN  /\ { response.body[k].treasure_id : k \in 1..Len(response.body) } = matching
           /\ Len(response.body) = Cardinality(matching)

(* The value a list entry is ordered by under a column. *)
EntryKey(entry, column) ==
    CASE column = "treasure_id"     -> entry.treasure_id
      [] column = "treasure_name"   -> StrRank(entry.treasure_name)
      [] column = "colour"          -> StrRank(entry.colour)
      [] column = "age"             -> entry.age
      [] column = "cost_at_auction" -> entry.cost_at_auction
      [] column = "shop_name"       -> StrRank(entry.shop_name)

(* C6: a list answered 200 is ordered by sort_by (age when omitted) in the
   direction order (asc when omitted): adjacent entries are non-decreasing
   for asc and non-increasing for desc, with or without filters. *)
ListIsOrdered ==
    (request.op = "GET treasures" /\ response.status = 200)
    => LET column == IF request.query.sort_by = <<>> THEN "age"
                     ELSE request.query.sort_by[1]
           direction == IF request.query.order = <<>> THEN "asc"
                        ELSE request.query.order[1]
           body == response.body
       IN  \A k \in 1..(Len(body) - 1) :
              IF direction = "asc"
              THEN EntryKey(body[k], column) <= EntryKey(body[k + 1], column)
              ELSE EntryKey(body[k], column) >= EntryKey(body[k + 1], column)

(* A list by descending cost, filtered by colour and by age, was answered
   with entries of different cost, and not every stored treasure is in it. *)
FilteredListDescending ==
    /\ request.op = "GET treasures"
    /\ response.status = 200
    /\ request.query.sort_by = <<"cost_at_auction">>
    /\ request.query.order = <<"desc">>
    /\ request.query.colour = <<"gold">>
    /\ request.query.max_age = <<1>>
    /\ Len(response.body) >= 2
    /\ Len(response.body) < Cardinality(DOMAIN treasures)
    /\ response.body[1].cost_at_auction > response.body[Len(response.body)].cost_at_auction

====
